---- MODULE Spec2Model ----
(***************************************************************************)
(* Model of the hull-semrush connector's HTTP server (src/src/server.ts,   *)
(* src/src/index.ts): the three Hull platform endpoints, the flow-control  *)
(* options built from the environment, the per-request container scope and *)
(* the disposal of the DI container on "close" and SIGINT.                 *)
(***************************************************************************)
EXTENDS Integers, Sequences, FiniteSets, TLC

(***************************************************************************)
(* Bounds of the model.                                                    *)
(***************************************************************************)
MaxRequests == 2
MaxTime == 2
MaxRecords == 3
MaxTriggers == 2

(***************************************************************************)
(* JavaScript values that the configuration code handles.                  *)
(* A string is a sequence of runs [c |-> character, n |-> repetitions], so *)
(* that "x" repeated 60000 times followed by "1" stays small.              *)
(***************************************************************************)
Undefined == [kind |-> "undefined", runs |-> <<>>]

Str(runs) == [kind |-> "string", runs |-> runs]

Lit(chars) == Str([i \in 1..Len(chars) |-> [c |-> chars[i], n |-> 1]])

Padded(n, ch) == Str(<<[c |-> "x", n |-> n], [c |-> ch, n |-> 1]>>)

NaN == [nan |-> TRUE, val |-> 0]

Num(v) == [nan |-> FALSE, val |-> v]

\* Number comparisons as the policy makes them: false whenever an operand is NaN.
Lt(a, b) == ~a.nan /\ ~b.nan /\ a.val < b.val

Le(a, b) == ~a.nan /\ ~b.nan /\ a.val <= b.val

RECURSIVE RunsLen(_)
RunsLen(runs) == IF runs = <<>> THEN 0 ELSE Head(runs).n + RunsLen(Tail(runs))

\* The character at 0-based index idx of a run-encoded string, "" when out of range.
RECURSIVE CharAt(_, _)
CharAt(runs, idx) ==
  IF runs = <<>> THEN ""
  ELSE IF idx < Head(runs).n THEN Head(runs).c
  ELSE CharAt(Tail(runs), idx - Head(runs).n)

IsDigit(ch) == ch \in {"0", "1", "2", "3", "4", "5", "6", "7", "8", "9"}

DigitVal(ch) ==
  CASE ch = "0" -> 0 [] ch = "1" -> 1 [] ch = "2" -> 2 [] ch = "3" -> 3
    [] ch = "4" -> 4 [] ch = "5" -> 5 [] ch = "6" -> 6 [] ch = "7" -> 7
    [] ch = "8" -> 8 [] ch = "9" -> 9

\* The decimal digits from index idx on, accumulated into acc; stops at the
\* first character that is not a digit.
RECURSIVE ParseDigits(_, _, _)
ParseDigits(runs, idx, acc) ==
  IF IsDigit(CharAt(runs, idx))
  THEN ParseDigits(runs, idx + 1, acc * 10 + DigitVal(CharAt(runs, idx)))
  ELSE acc

RECURSIVE SkipSpaces(_, _)
SkipSpaces(runs, idx) ==
  IF CharAt(runs, idx) = " " THEN SkipSpaces(runs, idx + 1) ELSE idx

\* parseInt(v, 10): undefined is converted to the string "undefined" and yields
\* NaN; leading blanks are skipped, an optional sign is read, then the longest
\* prefix of decimal digits; no digit yields NaN.
parseInt(v) ==
  IF v.kind = "undefined" THEN NaN
  ELSE LET start == SkipSpaces(v.runs, 0)
           neg == CharAt(v.runs, start) = "-"
           signed == CharAt(v.runs, start) \in {"-", "+"}
           first == IF signed THEN start + 1 ELSE start
           mag == ParseDigits(v.runs, first, 0)
       IN IF ~IsDigit(CharAt(v.runs, first)) THEN NaN
          ELSE Num(IF neg THEN 0 - mag ELSE mag)

\* The index a property key names on a string: the key "30" names index 30.
KeyIndex(key) == ParseDigits(Lit(key).runs, 0, 0)

\* _.get(object, path) with no default value: undefined for a null object,
\* otherwise object[path]; on a string primitive a numeric key reads the
\* character at that index, undefined when the string is shorter.
lodashGet(object, path) ==
  IF object.kind = "undefined" THEN Undefined
  ELSE IF KeyIndex(path) < RunsLen(object.runs)
       THEN Lit(<<CharAt(object.runs, KeyIndex(path))>>)
       ELSE Undefined

\* The literals handed to _.get as its second argument.
SizePath == <<"3", "0">>

InPath == <<"5">>

InTimePath == <<"6", "0", "0", "0", "0">>

\* flowControl with `in` read from FLOW_CONTROL_SIZE.
flowControlSizeAsIn(e) ==
  [type |-> "next",
   size |-> parseInt(lodashGet(e.FLOW_CONTROL_SIZE, SizePath)),
   in |-> parseInt(lodashGet(e.FLOW_CONTROL_SIZE, SizePath)),
   in_time |-> parseInt(lodashGet(e.FLOW_CONTROL_IN_TIME, InTimePath))]

\* flowControl of the "account:update" handler of POST /smart-notifier.
flowControl(e) ==
  [type |-> "next",
   size |-> parseInt(lodashGet(e.FLOW_CONTROL_SIZE, SizePath)),
   in |-> parseInt(lodashGet(e.FLOW_CONTROL_IN, InPath)),
   in_time |-> parseInt(lodashGet(e.FLOW_CONTROL_IN_TIME, InTimePath))]

NoFlowControl == [type |-> "none", size |-> NaN, in |-> NaN, in_time |-> NaN]

\* Deployments: the values of the three environment variables.
EnvChoices ==
  { [FLOW_CONTROL_SIZE |-> Undefined, FLOW_CONTROL_IN |-> Undefined,
     FLOW_CONTROL_IN_TIME |-> Undefined],
    [FLOW_CONTROL_SIZE |-> Lit(<<"5", "0">>), FLOW_CONTROL_IN |-> Lit(<<"2">>),
     FLOW_CONTROL_IN_TIME |-> Lit(<<"0">>)],
    [FLOW_CONTROL_SIZE |-> Padded(30, "7"), FLOW_CONTROL_IN |-> Padded(5, "1"),
     FLOW_CONTROL_IN_TIME |-> Padded(60000, "1")],
    [FLOW_CONTROL_SIZE |-> Undefined, FLOW_CONTROL_IN |-> Padded(5, "2"),
     FLOW_CONTROL_IN_TIME |-> Padded(60000, "0")],
    [FLOW_CONTROL_SIZE |-> Undefined, FLOW_CONTROL_IN |-> Padded(5, "1"),
     FLOW_CONTROL_IN_TIME |-> Undefined] }

(***************************************************************************)
(* Route registration of server.ts.                                        *)
(***************************************************************************)
Endpoints == {"/smart-notifier", "/batch", "/batch-accounts"}

Topics == {"account:update", "user:update"}

\* handlers with a handler registered for every topic.
handlersEveryTopic(endpoint) == Topics

\* The keys of the handlers object given to smartNotifierHandler on a route.
handlers(endpoint) == {"account:update"}

\* accountUpdate options with flowControl passed on the batch routes too.
accountUpdateOptionsEverywhere(endpoint, e) ==
  [flowControl |-> flowControl(e), isBatch |-> endpoint # "/smart-notifier"]

\* The options given to actions.accountUpdate on a route.
accountUpdateOptions(endpoint, e) ==
  IF endpoint = "/smart-notifier"
  THEN [flowControl |-> flowControl(e), isBatch |-> FALSE]
  ELSE [flowControl |-> NoFlowControl, isBatch |-> TRUE]

\* groupTraits when a route passes no userHandlerOptions.
DefaultGroupTraits == TRUE

\* userHandlerOptions with groupTraits left on for the batch routes.
userHandlerOptionsGrouped(endpoint) == [groupTraits |-> TRUE]

\* userHandlerOptions of a route: /smart-notifier passes none.
userHandlerOptions(endpoint) ==
  IF endpoint = "/smart-notifier"
  THEN [groupTraits |-> DefaultGroupTraits]
  ELSE [groupTraits |-> FALSE]

(***************************************************************************)
(* Records: an entity identifier and attribute deltas, and the Batch       *)
(* Grouping Processor (design section 4.2).                                *)
(***************************************************************************)
Ids == {"a", "b"}

Keys == {"x", "y"}

Values == {"unset", "v1", "v2"}

Records == [id : Ids, attrs : [Keys -> Values]]

Rec(id, x, y) == [id |-> id, attrs |-> [k \in Keys |-> IF k = "x" THEN x ELSE y]]

SeqsUpTo(S, n) == UNION {[1..k -> S] : k \in 0..n}

\* Merge that keeps the earlier value of a key.
MergeFirstWins(old, new) ==
  [id |-> new.id,
   attrs |-> [k \in Keys |-> IF old.attrs[k] # "unset" THEN old.attrs[k]
                             ELSE new.attrs[k]]]

\* Later attribute values overwrite earlier ones for the same key.
Merge(old, new) ==
  [id |-> new.id,
   attrs |-> [k \in Keys |-> IF new.attrs[k] # "unset" THEN new.attrs[k]
                             ELSE old.attrs[k]]]

Without(s, j) == [i \in 1..(Len(s) - 1) |-> IF i < j THEN s[i] ELSE s[i + 1]]

RECURSIVE GroupAcc(_, _)
GroupAcc(records, out) ==
  IF records = <<>> THEN out
  ELSE LET r == Head(records)
           same == {j \in 1..Len(out) : out[j].id = r.id}
       IN IF same = {}
          THEN GroupAcc(Tail(records), Append(out, r))
          ELSE LET j == CHOOSE j \in same : TRUE
               IN GroupAcc(Tail(records),
                           Append(Without(out, j), Merge(out[j], r)))

\* group(records, groupTraits) of the Batch Grouping Processor.
group(records, groupTraits) ==
  IF groupTraits THEN GroupAcc(records, <<>>) ELSE records

(***************************************************************************)
(* Flow Control Policy (design section 4.1).  Its code is in ./actions,    *)
(* which receives the flowControl options.                                 *)
(***************************************************************************)
MinBackoff == 1

Max(a, b) == IF a >= b THEN a ELSE b

\* The samples whose age is at most in_time.
Recent(config, smp, t) ==
  SelectSeq(smp, LAMBDA s : Le(Num(t - s), config.in_time))

Proceed(config, count) == Lt(Num(count), config.in)

\* RetryAfterMs without the floor.
RetryAfterMsNoFloor(config, recent, t) ==
  IF recent = <<>> THEN 0 ELSE recent[1] + config.in_time.val - t

\* Time until the oldest counted sample expires, floored at the minimum backoff.
RetryAfterMs(config, recent, t) ==
  IF recent = <<>> THEN MinBackoff
  ELSE Max(MinBackoff, recent[1] + config.in_time.val - t)

NoVerdict == [proceed |-> FALSE, hasRetry |-> FALSE, retryAfterMs |-> 0]

evaluate(config, smp, t) ==
  LET recent == Recent(config, smp, t)
  IN IF Proceed(config, Len(recent))
     THEN [proceed |-> TRUE, hasRetry |-> FALSE, retryAfterMs |-> 0]
     ELSE [proceed |-> FALSE, hasRetry |-> TRUE,
           retryAfterMs |-> RetryAfterMs(config, recent, t)]

(***************************************************************************)
(* State.                                                                  *)
(***************************************************************************)
VARIABLES
  env,          \* process.env: the three FLOW_CONTROL_* variables
  phase,        \* "init" until connector.startApp, then "listening"
  now,          \* the clock, in ms
  samples,      \* admission-window samples: the timestamps of admissions
  reqs,         \* the requests, by order of arrival
  nextUuid,     \* the next correlation key to hand out
  redisClient,  \* the container's cached redisClient singleton
  released,     \* how many redisClient instances have been released
  disposeCalls  \* how many times container.dispose() has run

vars == <<env, phase, now, samples, reqs, nextUuid, redisClient, released,
          disposeCalls>>

ReqIds == 1..MaxRequests

IdleRequest ==
  [pc |-> "idle", endpoint |-> "", topic |-> "", records |-> <<>>,
   correlationKey |-> 0, scopeOpen |-> FALSE, config |-> NoFlowControl,
   evaluated |-> FALSE, verdict |-> NoVerdict, delivered |-> <<>>,
   outcome |-> "none"]

Init ==
  /\ env \in EnvChoices
  /\ phase = "init"
  /\ now = 0
  /\ samples = <<>>
  /\ reqs = [r \in ReqIds |-> IdleRequest]
  /\ nextUuid = 1
  /\ redisClient = "absent"
  /\ released = 0
  /\ disposeCalls = 0

(***************************************************************************)
(* Startup (index.ts): the routes are registered and the app starts; the   *)
(* FLOW_CONTROL_* variables are not read.                                  *)
(***************************************************************************)
Start ==
  /\ phase = "init"
  /\ phase' = "listening"
  /\ UNCHANGED <<env, now, samples, reqs, nextUuid, redisClient, released,
                 disposeCalls>>

Tick ==
  /\ now < MaxTime
  /\ now' = now + 1
  /\ UNCHANGED <<env, phase, samples, reqs, nextUuid, redisClient, released,
                 disposeCalls>>

(***************************************************************************)
(* Request entry: the scope middleware creates the request's scope and     *)
(* registers a fresh correlation key; the redisClient singleton is         *)
(* resolved from the container, which instantiates it when it is not       *)
(* cached.                                                                 *)
(***************************************************************************)
\* A correlation key that is the same for every scope.
correlationKeyShared(next) == 1

correlationKey(next) == next

OpenScope(r, endpoint, topic, records) ==
  /\ phase = "listening"
  /\ reqs[r].pc = "idle"
  /\ \A q \in ReqIds : q < r => reqs[q].pc # "idle"
  /\ reqs' = [reqs EXCEPT ![r] =
       [IdleRequest EXCEPT !.pc = "entered", !.endpoint = endpoint,
                           !.topic = topic, !.records = records,
                           !.correlationKey = correlationKey(nextUuid),
                           !.scopeOpen = TRUE]]
  /\ nextUuid' = nextUuid + 1
  /\ redisClient' = "live"
  /\ UNCHANGED <<env, phase, now, samples, released, disposeCalls>>

\* The response is sent and the request's scope is closed.
Respond(req, outcome) ==
  [req EXCEPT !.pc = "done", !.outcome = outcome, !.scopeOpen = FALSE]

(***************************************************************************)
(* The route callback and the notification router: the handler is built    *)
(* with the route's options, the topic is looked up, the flow-control      *)
(* policy is consulted when the handler carries flow-control options (read *)
(* and record in one step), the records are grouped and handed to the      *)
(* handler.                                                                *)
(***************************************************************************)
Dispatch(r) ==
  LET req == reqs[r]
      opts == accountUpdateOptions(req.endpoint, env)
      out == group(req.records, userHandlerOptions(req.endpoint).groupTraits)
      verdict == evaluate(opts.flowControl, samples, now)
      built == [req EXCEPT !.config = opts.flowControl]
  IN /\ req.pc = "entered"
     /\ IF req.topic \notin handlers(req.endpoint)
        THEN /\ reqs' = [reqs EXCEPT ![r] = Respond(built, "Ack")]
             /\ UNCHANGED samples
        ELSE IF out = <<>>
        THEN /\ reqs' = [reqs EXCEPT ![r] = Respond(built, "Accepted")]
             /\ UNCHANGED samples
        ELSE IF opts.flowControl = NoFlowControl
        THEN /\ reqs' = [reqs EXCEPT ![r] =
                  [built EXCEPT !.pc = "handling", !.delivered = out]]
             /\ UNCHANGED samples
        ELSE IF verdict.proceed
        THEN /\ reqs' = [reqs EXCEPT ![r] =
                  [built EXCEPT !.pc = "handling", !.evaluated = TRUE,
                                !.verdict = verdict, !.delivered = out]]
             /\ samples' = Append(samples, now)
        ELSE /\ reqs' = [reqs EXCEPT ![r] =
                  Respond([built EXCEPT !.evaluated = TRUE,
                                        !.verdict = verdict], "RetryLater")]
             /\ UNCHANGED samples
     /\ UNCHANGED <<env, phase, now, nextUuid, redisClient, released,
                    disposeCalls>>

\* The handler's promise settles: resolved, or rejected and surfaced as a
\* generic server error.
Complete(r, ok) ==
  /\ reqs[r].pc = "handling"
  /\ reqs' = [reqs EXCEPT ![r] =
       Respond(reqs[r], IF ok THEN "Accepted" ELSE "ServerError")]
  /\ UNCHANGED <<env, phase, now, samples, nextUuid, redisClient, released,
                 disposeCalls>>

(***************************************************************************)
(* Shutdown triggers.  container.dispose() releases the cached singletons  *)
(* and empties the cache; a later resolution instantiates the singleton    *)
(* again.  Neither callback keeps or consults a lifecycle state.           *)
(***************************************************************************)
dispose ==
  /\ disposeCalls < MaxTriggers
  /\ disposeCalls' = disposeCalls + 1
  /\ released' = IF redisClient = "live" THEN released + 1 ELSE released
  /\ redisClient' = "absent"
  /\ UNCHANGED <<env, now, samples, reqs, nextUuid>>

\* app.on("close"): the server closes, so no further request arrives.
OnClose ==
  /\ phase = "listening"
  /\ phase' = "closed"
  /\ dispose

\* process.on("SIGINT"): the container is a constant object, so the
\* `!container` guard never returns early; the process keeps serving.
containerMissing == FALSE

OnSigint ==
  /\ ~containerMissing
  /\ UNCHANGED phase
  /\ dispose

(***************************************************************************)
(* Specifications.                                                         *)
(***************************************************************************)
\* The payloads of the requests of Spec and SpecLifecycle.
FlowRecordSeqs == {<<>>, <<Rec("a", "v1", "unset")>>}

\* The records of the requests of SpecBatch.
BatchRecords ==
  {Rec("a", "v1", "unset"), Rec("a", "v2", "unset"), Rec("a", "unset", "v1"),
   Rec("b", "unset", "v2")}

\* Requests on the three endpoints, interleaved, while the clock advances.
Next ==
  \/ Start
  \/ Tick
  \/ \E r \in ReqIds, ep \in Endpoints, t \in Topics, rs \in FlowRecordSeqs :
       OpenScope(r, ep, t, rs)
  \/ \E r \in ReqIds : Dispatch(r)
  \/ \E r \in ReqIds, ok \in BOOLEAN : Complete(r, ok)

Spec == Init /\ [][Next]_vars

\* One request with any sequence of at most MaxRecords records, in a
\* deployment whose flow-control options admit a first request.
InitBatch == Init /\ Proceed(flowControl(env), 0)

NextBatch ==
  \/ Start
  \/ \E ep \in Endpoints, rs \in SeqsUpTo(BatchRecords, MaxRecords) :
       OpenScope(1, ep, "account:update", rs)
  \/ Dispatch(1)
  \/ \E ok \in BOOLEAN : Complete(1, ok)

SpecBatch == InitBatch /\ [][NextBatch]_vars

\* Requests interleaved with the two shutdown triggers.
NextLifecycle ==
  \/ Start
  \/ \E r \in ReqIds, ep \in {"/smart-notifier", "/batch"}, t \in Topics :
       OpenScope(r, ep, t, <<Rec("a", "v1", "unset")>>)
  \/ \E r \in ReqIds : Dispatch(r)
  \/ \E r \in ReqIds, ok \in BOOLEAN : Complete(r, ok)
  \/ OnClose
  \/ OnSigint

SpecLifecycle == Init /\ [][NextLifecycle]_vars
(***************************************************************************)
(* Properties.                                                             *)
(***************************************************************************)
Arrived == {r \in ReqIds : reqs[r].pc # "idle"}

Single(r) == reqs[r].endpoint = "/smart-notifier"

Admitted(r) == reqs[r].evaluated /\ reqs[r].verdict.proceed

Rejected(r) == reqs[r].evaluated /\ ~reqs[r].verdict.proceed

\* windowCount and windowDurationMs as server.ts derives them.
WindowCount == parseInt(lodashGet(env.FLOW_CONTROL_IN, InPath))

WindowDurationMs == parseInt(lodashGet(env.FLOW_CONTROL_IN_TIME, InTimePath))

SamplesWithin(from, to) ==
  Cardinality({i \in 1..Len(samples) : from <= samples[i] /\ samples[i] <= to})

RejectedNotHandled ==
  /\ [](\A r \in ReqIds : Rejected(r) =>
          /\ reqs[r].pc = "done"
          /\ reqs[r].delivered = <<>>
          /\ reqs[r].outcome = "RetryLater"
          /\ reqs[r].verdict.hasRetry
          /\ reqs[r].verdict.retryAfterMs > 0)
  /\ [][\A r \in ReqIds : (~Rejected(r) /\ Rejected(r)') => samples' = samples]_vars

\* C3 witness: a request rejected while a counted sample expires right now.
RejectedWitness ==
  \E r \in Arrived :
    /\ Single(r) /\ Rejected(r)
    /\ SamplesWithin(0, now) >= 1
    /\ ~WindowDurationMs.nan
    /\ reqs[r].verdict.retryAfterMs = MinBackoff

\* C4: the samples are exactly the admitted /smart-notifier requests, one
\* each, and a batch request never consults the policy.
FlowStateFrame ==
  /\ Len(samples) = Cardinality({r \in Arrived : Single(r) /\ Admitted(r)})
  /\ \A r \in Arrived : ~Single(r) =>
       /\ ~reqs[r].evaluated
       /\ reqs[r].config = NoFlowControl

\* C4 witness: an admitted single-event request beside a batch request whose
\* records reached the handler.
FlowStateFrameWitness ==
  /\ Len(samples) = 1
  /\ \E r \in Arrived : Single(r) /\ Admitted(r)
  /\ \E r \in Arrived : ~Single(r) /\ reqs[r].delivered # <<>>

Batch(r) == reqs[r].endpoint \in {"/batch", "/batch-accounts"}

Dispatched(r) == reqs[r].pc \in {"handling", "done"}

\* C5: on the batch endpoints the handler receives the input sequence
\* unchanged; an empty sequence gives no invocation and a success outcome.
BatchPassThrough ==
  \A r \in ReqIds : (Batch(r) /\ Dispatched(r)) =>
    /\ reqs[r].delivered = reqs[r].records
    /\ reqs[r].records = <<>> => (reqs[r].pc = "done" /\ reqs[r].outcome = "Accepted")

\* C5 witness: a batch of three records, two of them of the same entity.
BatchPassThroughWitness ==
  \E r \in ReqIds :
    /\ Batch(r) /\ Dispatched(r)
    /\ Len(reqs[r].records) = 3
    /\ reqs[r].records[1].id = reqs[r].records[2].id
    /\ reqs[r].records[1] # reqs[r].records[2]

LastIndex(records, id) ==
  CHOOSE i \in 1..Len(records) :
    /\ records[i].id = id
    /\ \A j \in (i + 1)..Len(records) : records[j].id # id

\* The value of key k that the last record of entity id setting k carries.
LastWrite(records, id, k) ==
  LET setters == {i \in 1..Len(records) :
                    records[i].id = id /\ records[i].attrs[k] # "unset"}
  IN IF setters = {} THEN "unset"
     ELSE records[CHOOSE i \in setters : \A j \in setters : j <= i].attrs[k]

InputOf(r) == reqs[r].records

OutputOf(r) == reqs[r].delivered

\* C6: with groupTraits=true the output has one record per entity, each key
\* holding the last value written, in the order of the entities' last
\* occurrences.
GroupedLastWriteWins ==
  \A r \in ReqIds : (Single(r) /\ Admitted(r)) =>
    /\ {OutputOf(r)[i].id : i \in 1..Len(OutputOf(r))}
         = {InputOf(r)[i].id : i \in 1..Len(InputOf(r))}
    /\ \A i, j \in 1..Len(OutputOf(r)) :
         i < j => /\ OutputOf(r)[i].id # OutputOf(r)[j].id
                  /\ LastIndex(InputOf(r), OutputOf(r)[i].id)
                       < LastIndex(InputOf(r), OutputOf(r)[j].id)
    /\ \A i \in 1..Len(OutputOf(r)) : \A k \in Keys :
         OutputOf(r)[i].attrs[k] = LastWrite(InputOf(r), OutputOf(r)[i].id, k)

\* C6 witness: entity a, then b, then a again with another key.
GroupedWitness ==
  \E r \in ReqIds :
    /\ Single(r) /\ Admitted(r)
    /\ InputOf(r) = <<Rec("a", "v1", "unset"), Rec("b", "unset", "v2"),
                      Rec("a", "unset", "v1")>>
    /\ OutputOf(r) = <<Rec("b", "unset", "v2"), Rec("a", "v1", "v1")>>

Unregistered(r) == reqs[r].topic # "account:update"

\* C7: a request with a topic other than account:update reaches no handler,
\* is acknowledged, and its dispatch leaves the samples unchanged.
UnregisteredIgnored ==
  /\ [](\A r \in ReqIds : (Unregistered(r) /\ Dispatched(r)) =>
          /\ reqs[r].pc = "done"
          /\ reqs[r].delivered = <<>>
          /\ reqs[r].outcome = "Ack"
          /\ ~reqs[r].evaluated)
  /\ [][\A r \in ReqIds :
          (Unregistered(r) /\ reqs[r].pc # reqs'[r].pc) => samples' = samples]_vars

\* C7 witness: an unregistered topic acknowledged on /smart-notifier in a
\* deployment that would admit a request, and another one on a batch endpoint.
UnregisteredWitness ==
  /\ Proceed(flowControl(env), Len(samples))
  /\ \E r \in Arrived : Single(r) /\ Unregistered(r) /\ reqs[r].outcome = "Ack"
                        /\ reqs[r].records # <<>>
  /\ \E r \in Arrived : Batch(r) /\ Unregistered(r) /\ reqs[r].outcome = "Ack"

\* C8: every request has its own correlation key, its scope is open exactly
\* while the request is in progress, and a step that closes a scope releases
\* no redisClient.
ScopePerRequest ==
  /\ [](\A r \in Arrived :
          /\ \A q \in Arrived : q # r => reqs[q].correlationKey # reqs[r].correlationKey
          /\ reqs[r].scopeOpen <=> reqs[r].pc \in {"entered", "handling"})
  /\ [][\A r \in ReqIds : (reqs[r].scopeOpen /\ ~reqs'[r].scopeOpen) =>
          (redisClient' = redisClient /\ released' = released)]_vars

\* C8 witness: a handler failure and a router-level rejection, both scopes
\* closed, the shared client still live.
ScopeWitness ==
  /\ redisClient = "live"
  /\ \E r \in Arrived : reqs[r].outcome = "ServerError" /\ ~reqs[r].scopeOpen
  /\ \E r \in Arrived : reqs[r].outcome = "RetryLater" /\ ~reqs[r].scopeOpen

\* The integer value of an environment variable, dflt when it is unset.
envInt(v, dflt) == IF v.kind = "undefined" THEN Num(dflt) ELSE parseInt(v)

IntendedFlowControl(e) ==
  [type |-> "next",
   size |-> envInt(e.FLOW_CONTROL_SIZE, 30),
   in |-> envInt(e.FLOW_CONTROL_IN, 5),
   in_time |-> envInt(e.FLOW_CONTROL_IN_TIME, 60000)]

\* C9: the flow-control options of /smart-notifier are the integer values of
\* the FLOW_CONTROL_* variables, 30, 5 and 60000 when unset, with type "next".
FlowControlFromEnv ==
  \A r \in Arrived : (Single(r) /\ Dispatched(r)) =>
    reqs[r].config = IntendedFlowControl(env)

ValidConfig(c) ==
  /\ ~c.size.nan /\ c.size.val >= 0
  /\ ~c.in.nan /\ c.in.val >= 0
  /\ ~c.in_time.nan /\ c.in_time.val > 0

\* C10: an invalid configuration halts startup, and no request is evaluated
\* against an invalid configuration.
InvalidConfigRejected ==
  /\ phase = "listening" => ValidConfig(IntendedFlowControl(env))
  /\ \A r \in Arrived : reqs[r].evaluated => ValidConfig(reqs[r].config)

\* C2: the shared client is released at most once, and once the container
\* has been disposed the lifecycle never returns to a live shared client.
ShutdownOnce ==
  /\ released <= 1
  /\ disposeCalls >= 1 => redisClient # "live"
====
